---- MODULE Spec2Model ----
(***************************************************************************)
(* Model of the journald container logger module                          *)
(* (src/journald/lib_journald.cpp): the JournaldContainerLogger facade,    *)
(* the JournaldContainerLoggerProcess actor behind it and the steps of    *)
(* JournaldContainerLoggerProcess::prepare, which composes the sink        *)
(* environment, builds the labels and sets up the two pipes and the two   *)
(* logger subprocesses.                                                    *)
(*                                                                         *)
(* Strings whose content the code computes with (paths, environment       *)
(* values) are sequences of one-character strings.                         *)
(***************************************************************************)
EXTENDS Integers, Sequences, FiniteSets, TLC

\* ------------------------------------------------------------------ bounds
\* Number of prepare requests the caller dispatches in one behaviour.
MaxCalls == 2

\* Highest descriptor number of the setup side's descriptor table
\* (descriptors 0..2 are stdin/stdout/stderr and are never touched).
MaxFd == 7

\* ----------------------------------------------------------------- strings
SEP == "/"

Digits == <<"0", "1", "2", "3", "4", "5", "6", "7", "8", "9">>

RECURSIVE stringify(_)
\* stringify(size_t): the decimal representation.
stringify(n) ==
  IF n < 10 THEN <<Digits[n + 1]>>
  ELSE stringify(n \div 10) \o <<Digits[(n % 10) + 1]>>

RECURSIVE StripSlashes(_, _)
\* "while (end > 0 && value[end] == separator) end--;" on 1-based indices.
StripSlashes(s, i) ==
  IF i > 1 /\ s[i] = SEP THEN StripSlashes(s, i - 1) ELSE i

RECURSIVE FindLastOf(_, _)
\* value.find_last_of(separator, end): 0 stands for npos.
FindLastOf(s, i) ==
  IF i = 0 THEN 0 ELSE IF s[i] = SEP THEN i ELSE FindLastOf(s, i - 1)

RECURSIVE FindLastNotOf(_, _)
\* value.find_last_not_of(separator, end): 0 stands for npos.
FindLastNotOf(s, i) ==
  IF i = 0 THEN 0 ELSE IF s[i] # SEP THEN i ELSE FindLastNotOf(s, i - 1)

\* Path(value).dirname()
dirname(s) ==
  IF s = <<>> THEN <<".">>
  ELSE LET e1 == StripSlashes(s, Len(s))
           e2 == FindLastOf(s, e1)
       IN IF e2 = 0 THEN <<".">>
          ELSE SubSeq(s, 1, StripSlashes(s, e2))

\* Path(value).basename()
basename(s) ==
  IF s = <<>> THEN <<".">>
  ELSE LET e1 == IF s[Len(s)] = SEP THEN FindLastNotOf(s, Len(s)) ELSE Len(s)
       IN IF e1 = 0 THEN <<SEP>>
          ELSE SubSeq(s, FindLastOf(s, e1) + 1, e1)

\* ------------------------------------------------------------- environment
\* An environment is a std::map<string, string>: a function whose domain is
\* the set of variables that are set.
erase(env, k) == [x \in (DOMAIN env) \ {k} |-> env[x]]

assign(env, k, v) == [x \in (DOMAIN env) \cup {k} |-> IF x = k THEN v ELSE env[x]]

count(env, k) == IF k \in DOMAIN env THEN 1 ELSE 0

\* Variant of inheritEnvironment: only LIBPROCESS_PORT is erased.
inheritEnvironment_KeepsAdvertisePort(osenv) ==
  LET e == erase(osenv, "LIBPROCESS_PORT")
  IN IF count(e, "LD_LIBRARY_PATH") <= 0 /\ count(e, "MESOS_NATIVE_LIBRARY") > 0
     THEN assign(e, "LD_LIBRARY_PATH", dirname(e["MESOS_NATIVE_LIBRARY"]))
     ELSE e

\* Variant of inheritEnvironment: LD_LIBRARY_PATH is set from
\* MESOS_NATIVE_LIBRARY also when it is already set.
inheritEnvironment_Overwrites(osenv) ==
  LET e == erase(erase(osenv, "LIBPROCESS_PORT"), "LIBPROCESS_ADVERTISE_PORT")
  IN IF count(e, "MESOS_NATIVE_LIBRARY") > 0
     THEN assign(e, "LD_LIBRARY_PATH", dirname(e["MESOS_NATIVE_LIBRARY"]))
     ELSE e

\* environment after lines 68-78: the ports erased, LD_LIBRARY_PATH patched.
inheritEnvironment(osenv) ==
  LET e == erase(erase(osenv, "LIBPROCESS_PORT"), "LIBPROCESS_ADVERTISE_PORT")
  IN IF count(e, "LD_LIBRARY_PATH") <= 0 /\ count(e, "MESOS_NATIVE_LIBRARY") > 0
     THEN assign(e, "LD_LIBRARY_PATH", dirname(e["MESOS_NATIVE_LIBRARY"]))
     ELSE e

\* Variant of setWorkerThreads: a value inherited from the supervisor wins.
setWorkerThreads_IfUnset(env, n) ==
  IF count(env, "LIBPROCESS_NUM_WORKER_THREADS") > 0 THEN env
  ELSE assign(env, "LIBPROCESS_NUM_WORKER_THREADS", stringify(n))

\* environment after lines 83-84.
setWorkerThreads(env, n) == assign(env, "LIBPROCESS_NUM_WORKER_THREADS", stringify(n))

\* --------------------------------------------------------------- inputs
EnvBase == [x \in {"PATH"} |-> <<"/", "b">>]

\* An environment from, per variable, the set of its values (empty: unset).
EnvOf(opt) ==
  [x \in {k \in DOMAIN opt : opt[k] # {}} |-> CHOOSE v \in opt[x] : TRUE]

\* The environments the supervisor (the agent) may have been started with.
SupervisorEnvs ==
  { EnvOf([PATH |-> {<<"/", "b">>},
           LIBPROCESS_PORT |-> lp,
           LIBPROCESS_ADVERTISE_PORT |-> la,
           LD_LIBRARY_PATH |-> ld,
           MESOS_NATIVE_LIBRARY |-> mn,
           LIBPROCESS_NUM_WORKER_THREADS |-> nw]) :
      lp \in {{}, {<<"5", "0">>}},
      la \in {{}, {<<"5", "1">>}},
      ld \in {{}, {<<>>}, {<<"/", "x">>}},
      mn \in {{}, {<<>>}, {<<"l">>}, {<<"/", "a", "/", "l">>},
              {<<"/", "a", "/", "/">>}, {<<"/", "l">>}},
      nw \in {{}, {<<"4">>}} }

\* Values of flags.libprocess_num_worker_threads.
WorkerThreadCounts == {0, 1, 9, 10, 12}

\* The (executorInfo, sandboxDirectory) pairs the caller passes to prepare.
Requests ==
  { [has_framework_id |-> TRUE, framework_id |-> "fw-1", executor_id |-> "ex-1",
     has_labels |-> FALSE, labels |-> <<>>,
     sandboxDirectory |-> <<"/", "s", "/", "c">>],
    [has_framework_id |-> TRUE, framework_id |-> "fw-2", executor_id |-> "ex-2",
     has_labels |-> TRUE,
     labels |-> <<[key |-> "FRAMEWORK_ID", value |-> <<"mine">>],
                  [key |-> "k", value |-> <<"v">>]>>,
     sandboxDirectory |-> <<"/", "s", "/", "d", "/">>],
    [has_framework_id |-> TRUE, framework_id |-> "fw-3", executor_id |-> "ex-3",
     has_labels |-> TRUE, labels |-> <<>>,
     sandboxDirectory |-> <<"/">>],
    [has_framework_id |-> FALSE, framework_id |-> "", executor_id |-> "ex-4",
     has_labels |-> FALSE, labels |-> <<>>,
     sandboxDirectory |-> <<"c">>] }

\* The configurations and requests of the concurrent specification: a
\* supervisor environment with flags, and one request with and one without
\* a framework id.
Configs ==
  { [osenv |-> EnvOf([PATH |-> {<<"/", "b">>},
                      LIBPROCESS_PORT |-> {<<"5", "0">>},
                      LIBPROCESS_ADVERTISE_PORT |-> {<<"5", "1">>},
                      MESOS_NATIVE_LIBRARY |-> {<<"/", "a", "/", "l">>}]),
     threads |-> 12],
    [osenv |-> EnvOf([PATH |-> {<<"/", "b">>},
                      LD_LIBRARY_PATH |-> {<<"/", "x">>},
                      LIBPROCESS_NUM_WORKER_THREADS |-> {<<"4">>}]),
     threads |-> 1],
    [osenv |-> EnvBase, threads |-> 0] }

AllConfigs == [osenv : SupervisorEnvs, threads : WorkerThreadCounts]

SomeRequests == {r \in Requests : r.framework_id \in {"fw-2", ""}}

NoRequest ==
  [has_framework_id |-> FALSE, framework_id |-> "", executor_id |-> "",
   has_labels |-> FALSE, labels |-> <<>>, sandboxDirectory |-> <<>>]

\* Variant of buildLabels: a caller label that uses an identity key is
\* dropped in favour of the identity label.
buildLabels_Deduplicates(req) ==
  LET own == IF req.has_labels THEN req.labels ELSE <<>>
  IN SelectSeq(own, LAMBDA l : l.key \notin {"FRAMEWORK_ID", "EXECUTOR_ID", "CONTAINER_ID"})
       \o <<[key |-> "FRAMEWORK_ID", value |-> <<req.framework_id>>],
            [key |-> "EXECUTOR_ID", value |-> <<req.executor_id>>],
            [key |-> "CONTAINER_ID", value |-> basename(req.sandboxDirectory)]>>

\* labels after lines 90-109.
buildLabels(req) ==
  (IF req.has_labels THEN req.labels ELSE <<>>)
    \o <<[key |-> "FRAMEWORK_ID", value |-> <<req.framework_id>>],
         [key |-> "EXECUTOR_ID", value |-> <<req.executor_id>>],
         [key |-> "CONTAINER_ID", value |-> basename(req.sandboxDirectory)]>>

\* ------------------------------------------------------------------ state
VARIABLES
  flags,       \* JournaldContainerLoggerProcess::flags (set at construction)
  osenv,       \* os::environment() of the supervisor
  facade,      \* JournaldContainerLogger: "alive", "destroying", "destroyed"
  actorState,  \* the spawned process: "running" or "terminated"
  terminating, \* a TerminateEvent has been injected at the head of the queue
  queue,       \* dispatched prepare events not yet started, oldest first
  nextId,      \* id of the next request to be dispatched
  request,     \* request[c]: the arguments of request c
  call,        \* call[c]: position and locals of the execution of request c
  fdt,         \* descriptor table of the setup side (the agent process)
  procs,       \* procs[c][d]: the logger subprocess of call c, direction d
  results,     \* results[c]: what the future of request c was set to
  started,     \* ids in the order the actor started executing them
  aborted      \* a CHECK failed: the agent process has aborted

vars == <<flags, osenv, facade, actorState, terminating, queue, nextId, request,
          call, fdt, procs, results, started, aborted>>

Calls == 1..MaxCalls

FDs == 3..MaxFd

Dirs == {"out", "err"}

NoFd == [open |-> FALSE, pipe |-> <<0, "none">>, end |-> "none",
         cloexec |-> FALSE, owner |-> "none"]

NoFds == [read |-> 0, write |-> 0]

NoProc == [state |-> "none", stdin |-> <<<<0, "none">>, "none">>,
           inherited |-> {}, environment |-> <<>>, labels |-> <<>>]

NoResult == [ok |-> FALSE, out |-> 0, err |-> 0, error |-> ""]

NoCall == [pc |-> "none", environment |-> <<>>, labels |-> <<>>,
           outfds |-> NoFds, errfds |-> NoFds,
           todo |-> <<>>, failure |-> "", result |-> NoResult, events |-> <<>>]

\* Positions at which the actor is inside prepare (or about to complete the
\* future with its return value).
Active == {"compose", "labels", "outPipe", "outCloexec", "outSpawn",
           "errPipe", "errCloexec", "errSpawn", "return", "rollback",
           "returned"}

\* The state after the module's factory has constructed the facade with
\* configuration cfg, which spawns the actor.
Constructed(cfg) ==
  /\ flags = [libprocess_num_worker_threads |-> cfg.threads]
  /\ osenv = cfg.osenv
  /\ facade = "alive"
  /\ actorState = "running"
  /\ terminating = FALSE
  /\ queue = <<>>
  /\ nextId = 1
  /\ request = [c \in Calls |-> NoRequest]
  /\ call = [c \in Calls |-> NoCall]
  /\ fdt = [f \in FDs |-> NoFd]
  /\ procs = [c \in Calls |-> [d \in Dirs |-> NoProc]]
  /\ results = [c \in Calls |-> <<>>]
  /\ started = <<>>
  /\ aborted = FALSE

Init == \E cfg \in Configs : Constructed(cfg)

\* ------------------------------------------------------- OS-level helpers
Lowest(S) == CHOOSE x \in S : \A y \in S : x <= y

FreeFds == {f \in FDs : ~fdt[f].open}

\* ::pipe(pipefd): the two lowest free descriptors, neither close-on-exec.
pipe(t, c, d) ==
  LET r == Lowest({f \in FDs : ~t[f].open})
      w == Lowest({f \in FDs : ~t[f].open} \ {r})
  IN [fds |-> [read |-> r, write |-> w],
      table |-> [t EXCEPT
        ![r] = [open |-> TRUE, pipe |-> <<c, d>>, end |-> "r",
                cloexec |-> FALSE, owner |-> "call"],
        ![w] = [open |-> TRUE, pipe |-> <<c, d>>, end |-> "w",
                cloexec |-> FALSE, owner |-> "call"]]]

\* Variant of cloexec: the flag is not set.
cloexec_Noop(t, fd) == t

\* os::cloexec(fd)
cloexec(t, fd) == [t EXCEPT ![fd].cloexec = TRUE]

\* os::close(fd): EBADF (no effect) when fd is not open.
close(t, fd) == IF fd \in FDs /\ t[fd].open THEN [t EXCEPT ![fd] = NoFd] ELSE t

\* What the child of subprocess() holds once the logger binary runs: its
\* stdin, and every descriptor of the parent that is not close-on-exec
\* (the child closes its own copy of the stdin descriptor after dup2).
childOf(t, c, stdinFd) ==
  [state |-> "alive",
   stdin |-> <<t[stdinFd].pipe, t[stdinFd].end>>,
   inherited |-> {<<t[f].pipe, t[f].end>> :
                    f \in {g \in FDs : t[g].open /\ ~t[g].cloexec /\ g # stdinFd}},
   environment |-> call[c].environment,
   labels |-> call[c].labels]

\* Variant of killtree: the signal is not delivered.
killtree_Noop(p) == p

\* os::killtree(pid, SIGKILL) on the process tree rooted at a logger.
killtree(p) == IF p.state = "alive" THEN [p EXCEPT !.state = "killed"] ELSE p

\* Holders of the write end of pipe <<c, d>>: descriptors of the setup side
\* and running loggers that inherited it.
WriteHolders(c, d) ==
  {<<0, f>> : f \in {g \in FDs : fdt[g].open /\ fdt[g].pipe = <<c, d>> /\ fdt[g].end = "w"}}
    \cup {<<k, e>> \in Calls \X Dirs :
            procs[k][e].state = "alive" /\ <<<<c, d>>, "w">> \in procs[k][e].inherited}

Ev(op, d, end, fd, ok) == [op |-> op, dir |-> d, end |-> end, fd |-> fd, ok |-> ok]

\* The descriptor number a cleanup statement names.
LocalFd(c, d, end) ==
  LET fds == IF d = "out" THEN call[c].outfds ELSE call[c].errfds
  IN IF end = "r" THEN fds.read ELSE fds.write

CloseOp(d, end) == [op |-> "close", dir |-> d, end |-> end]

KillOp == [op |-> "kill", dir |-> "out", end |-> "none"]

\* ------------------------------------------------------- facade and actor
\* JournaldContainerLogger::prepare: dispatch() enqueues the call on the
\* actor and returns its future.
Dispatch(req) ==
  /\ ~aborted
  /\ facade = "alive"
  /\ nextId <= MaxCalls
  /\ request' = [request EXCEPT ![nextId] = req]
  /\ call' = [call EXCEPT ![nextId].pc = "queued"]
  /\ queue' = Append(queue, nextId)
  /\ nextId' = nextId + 1
  /\ UNCHANGED <<flags, osenv, facade, actorState, terminating, fdt, procs,
                 results, started, aborted>>

\* Variant of ActorIdle: the actor takes an event while a handler runs.
ActorIdle_Always == TRUE

\* The actor is free to take its next event.
ActorIdle == \A k \in Calls : call[k].pc \notin Active

\* The actor takes the oldest dispatched call and enters prepare.
ActorDequeue(c) ==
  /\ ~aborted
  /\ actorState = "running"
  /\ ~terminating
  /\ ActorIdle
  /\ queue # <<>>
  /\ c = Head(queue)
  /\ queue' = Tail(queue)
  /\ call' = [call EXCEPT ![c].pc = "compose"]
  /\ started' = Append(started, c)
  /\ UNCHANGED <<flags, osenv, facade, actorState, terminating, nextId, request,
                 fdt, procs, results, aborted>>

\* Variant of ActorFinish: the future is completed twice.
ActorFinish_Twice(c) ==
  /\ ~aborted
  /\ call[c].pc = "returned"
  /\ results' = [results EXCEPT ![c] = Append(Append(@, call[c].result), call[c].result)]
  /\ call' = [call EXCEPT ![c] = [NoCall EXCEPT !.pc = "done"]]
  /\ UNCHANGED <<flags, osenv, facade, actorState, terminating, queue, nextId,
                 request, fdt, procs, started, aborted>>

\* The dispatched lambda completes the caller's future with what prepare
\* returned; the frame of prepare is gone and the actor is free again.
ActorFinish(c) ==
  /\ ~aborted
  /\ call[c].pc = "returned"
  /\ results' = [results EXCEPT ![c] = Append(@, call[c].result)]
  /\ call' = [call EXCEPT ![c] = [NoCall EXCEPT !.pc = "done"]]
  /\ fdt' = IF call[c].result.ok
            THEN [f \in FDs |->
                    IF f \in {call[c].result.out, call[c].result.err}
                    THEN [fdt[f] EXCEPT !.owner = "caller"] ELSE fdt[f]]
            ELSE fdt
  /\ UNCHANGED <<flags, osenv, facade, actorState, terminating, queue, nextId,
                 request, procs, started, aborted>>

\* ~JournaldContainerLogger, first statement: terminate(process.get())
\* injects a TerminateEvent ahead of every queued event.
Destroy ==
  /\ ~aborted
  /\ facade = "alive"
  /\ facade' = "destroying"
  /\ terminating' = TRUE
  /\ UNCHANGED <<flags, osenv, actorState, queue, nextId, request, call, fdt,
                 procs, results, started, aborted>>

\* Variant of ActorTerminate: the TerminateEvent is handled while a handler
\* is executing.
ActorTerminate_MidCall ==
  /\ ~aborted
  /\ terminating
  /\ actorState = "running"
  /\ actorState' = "terminated"
  /\ call' = [c \in Calls |->
                IF call[c].pc = "queued" THEN [call[c] EXCEPT !.pc = "dropped"]
                ELSE call[c]]
  /\ queue' = <<>>
  /\ UNCHANGED <<flags, osenv, facade, terminating, nextId, request, fdt, procs,
                 results, started, aborted>>

\* The actor handles the TerminateEvent once the handler it is executing has
\* returned: the events still queued are deleted without being run.
ActorTerminate ==
  /\ ~aborted
  /\ terminating
  /\ actorState = "running"
  /\ ActorIdle
  /\ actorState' = "terminated"
  /\ call' = [c \in Calls |->
                IF call[c].pc = "queued" THEN [call[c] EXCEPT !.pc = "dropped"]
                ELSE call[c]]
  /\ queue' = <<>>
  /\ UNCHANGED <<flags, osenv, facade, terminating, nextId, request, fdt, procs,
                 results, started, aborted>>

\* ~JournaldContainerLogger, second statement: wait(process.get()) returns.
DestroyWait ==
  /\ ~aborted
  /\ facade = "destroying"
  /\ actorState = "terminated"
  /\ facade' = "destroyed"
  /\ UNCHANGED <<flags, osenv, actorState, terminating, queue, nextId, request,
                 call, fdt, procs, results, started, aborted>>

\* Variant of Compose: the count is not checked.
Compose_NoCheck(c) ==
  /\ ~aborted
  /\ call[c].pc = "compose"
  /\ call' = [call EXCEPT
        ![c].environment =
           setWorkerThreads(inheritEnvironment(osenv),
                            flags.libprocess_num_worker_threads),
        ![c].pc = "labels"]
  /\ UNCHANGED <<flags, osenv, facade, actorState, terminating, queue, nextId,
                 request, fdt, procs, results, started, aborted>>

\* ----------------------------------------------------------------- prepare
\* Lines 68-84: compose the environment; CHECK_GT aborts on a count of 0.
Compose(c) ==
  /\ ~aborted
  /\ call[c].pc = "compose"
  /\ IF flags.libprocess_num_worker_threads > 0
     THEN /\ call' = [call EXCEPT
                ![c].environment =
                   setWorkerThreads(inheritEnvironment(osenv),
                                    flags.libprocess_num_worker_threads),
                ![c].pc = "labels"]
          /\ UNCHANGED aborted
     ELSE /\ call' = [call EXCEPT
                ![c].environment = inheritEnvironment(osenv),
                ![c].pc = "aborted"]
          /\ aborted' = TRUE
  /\ UNCHANGED <<flags, osenv, facade, actorState, terminating, queue, nextId,
                 request, fdt, procs, results, started>>

\* Variant of BuildLabels: the presence of the framework id is not checked.
BuildLabels_NoCheck(c) ==
  /\ ~aborted
  /\ call[c].pc = "labels"
  /\ call' = [call EXCEPT ![c].labels = buildLabels(request[c]),
                          ![c].pc = "outPipe"]
  /\ UNCHANGED <<flags, osenv, facade, actorState, terminating, queue, nextId,
                 request, fdt, procs, results, started, aborted>>

\* Lines 90-112: build the labels; CHECK aborts without a framework id.
BuildLabels(c) ==
  /\ ~aborted
  /\ call[c].pc = "labels"
  /\ IF request[c].has_framework_id
     THEN /\ call' = [call EXCEPT ![c].labels = buildLabels(request[c]),
                                  ![c].pc = "outPipe"]
          /\ UNCHANGED aborted
     ELSE /\ call' = [call EXCEPT
                ![c].labels = IF request[c].has_labels THEN request[c].labels
                              ELSE <<>>,
                ![c].pc = "aborted"]
          /\ aborted' = TRUE
  /\ UNCHANGED <<flags, osenv, facade, actorState, terminating, queue, nextId,
                 request, fdt, procs, results, started>>

\* Lines 121-127: the out pipe is allocated.
OutPipeOk(c) ==
  /\ ~aborted
  /\ call[c].pc = "outPipe"
  /\ Cardinality(FreeFds) >= 2
  /\ LET p == pipe(fdt, c, "out")
     IN /\ fdt' = p.table
        /\ call' = [call EXCEPT
              ![c].outfds = p.fds,
              ![c].events = Append(@, Ev("pipe", "out", "none", 0, TRUE)),
              ![c].pc = "outCloexec"]
  /\ UNCHANGED <<flags, osenv, facade, actorState, terminating, queue, nextId,
                 request, procs, results, started, aborted>>

\* Lines 121-123: ::pipe fails; nothing to clean up.
OutPipeFail(c) ==
  /\ ~aborted
  /\ call[c].pc = "outPipe"
  /\ call' = [call EXCEPT
        ![c].events = Append(@, Ev("pipe", "out", "none", 0, FALSE)),
        ![c].todo = <<>>,
        ![c].failure = "Failed to create pipe",
        ![c].pc = "rollback"]
  /\ UNCHANGED <<flags, osenv, facade, actorState, terminating, queue, nextId,
                 request, fdt, procs, results, started, aborted>>

\* Line 132: the out write end is marked close-on-exec.
OutCloexecOk(c) ==
  /\ ~aborted
  /\ call[c].pc = "outCloexec"
  /\ fdt' = cloexec(fdt, call[c].outfds.write)
  /\ call' = [call EXCEPT
        ![c].events = Append(@, Ev("cloexec", "out", "w", call[c].outfds.write, TRUE)),
        ![c].pc = "outSpawn"]
  /\ UNCHANGED <<flags, osenv, facade, actorState, terminating, queue, nextId,
                 request, procs, results, started, aborted>>

\* Lines 133-137: os::cloexec fails; both ends are to be closed.
OutCloexecFail(c) ==
  /\ ~aborted
  /\ call[c].pc = "outCloexec"
  /\ call' = [call EXCEPT
        ![c].events = Append(@, Ev("cloexec", "out", "w", call[c].outfds.write, FALSE)),
        ![c].todo = <<CloseOp("out", "r"), CloseOp("out", "w")>>,
        ![c].failure = "Failed to cloexec",
        ![c].pc = "rollback"]
  /\ UNCHANGED <<flags, osenv, facade, actorState, terminating, queue, nextId,
                 request, fdt, procs, results, started, aborted>>

\* Variant of OutSpawnOk: the setup side keeps the read end open (as with a
\* duplicated rather than an owned descriptor).
OutSpawnOk_KeepsReadEnd(c) ==
  /\ ~aborted
  /\ call[c].pc = "outSpawn"
  /\ procs' = [procs EXCEPT ![c]["out"] = childOf(fdt, c, call[c].outfds.read)]
  /\ call' = [call EXCEPT
        ![c].events = Append(@, Ev("spawn", "out", "r", call[c].outfds.read, TRUE)),
        ![c].pc = "errPipe"]
  /\ UNCHANGED <<flags, osenv, facade, actorState, terminating, queue, nextId,
                 request, fdt, results, started, aborted>>

\* Lines 140-150: the out logger is spawned; the read end, passed as
\* Subprocess::FD(..., OWNED), is closed on the setup side by subprocess().
OutSpawnOk(c) ==
  /\ ~aborted
  /\ call[c].pc = "outSpawn"
  /\ procs' = [procs EXCEPT ![c]["out"] = childOf(fdt, c, call[c].outfds.read)]
  /\ fdt' = close(fdt, call[c].outfds.read)
  /\ call' = [call EXCEPT
        ![c].events = Append(@, Ev("spawn", "out", "r", call[c].outfds.read, TRUE)),
        ![c].pc = "errPipe"]
  /\ UNCHANGED <<flags, osenv, facade, actorState, terminating, queue, nextId,
                 request, results, started, aborted>>

\* Variant of OutSpawnFail: the cleanup closes the read end too, as the
\* close-on-exec failure branch above it does.
OutSpawnFail_ClosesReadEnd(c) ==
  /\ ~aborted
  /\ call[c].pc = "outSpawn"
  /\ fdt' = close(fdt, call[c].outfds.read)
  /\ call' = [call EXCEPT
        ![c].events = Append(@, Ev("spawn", "out", "r", call[c].outfds.read, FALSE)),
        ![c].todo = <<CloseOp("out", "r"), CloseOp("out", "w")>>,
        ![c].failure = "Failed to create logger process",
        ![c].pc = "rollback"]
  /\ UNCHANGED <<flags, osenv, facade, actorState, terminating, queue, nextId,
                 request, procs, results, started, aborted>>

\* Variant of OutSpawnFail: the error of subprocess() is not tested and the
\* call goes on to the err pipe.
OutSpawnFail_GoesOn(c) ==
  /\ ~aborted
  /\ call[c].pc = "outSpawn"
  /\ fdt' = close(fdt, call[c].outfds.read)
  /\ call' = [call EXCEPT
        ![c].events = Append(@, Ev("spawn", "out", "r", call[c].outfds.read, FALSE)),
        ![c].pc = "errPipe"]
  /\ UNCHANGED <<flags, osenv, facade, actorState, terminating, queue, nextId,
                 request, procs, results, started, aborted>>

\* Lines 152-155: subprocess() fails (having closed the read end it owned);
\* the write end is to be closed.
OutSpawnFail(c) ==
  /\ ~aborted
  /\ call[c].pc = "outSpawn"
  /\ fdt' = close(fdt, call[c].outfds.read)
  /\ call' = [call EXCEPT
        ![c].events = Append(@, Ev("spawn", "out", "r", call[c].outfds.read, FALSE)),
        ![c].todo = <<CloseOp("out", "w")>>,
        ![c].failure = "Failed to create logger process",
        ![c].pc = "rollback"]
  /\ UNCHANGED <<flags, osenv, facade, actorState, terminating, queue, nextId,
                 request, procs, results, started, aborted>>

\* Lines 159, 165-167: the err pipe is allocated.
ErrPipeOk(c) ==
  /\ ~aborted
  /\ call[c].pc = "errPipe"
  /\ Cardinality(FreeFds) >= 2
  /\ LET p == pipe(fdt, c, "err")
     IN /\ fdt' = p.table
        /\ call' = [call EXCEPT
              ![c].errfds = p.fds,
              ![c].events = Append(@, Ev("pipe", "err", "none", 0, TRUE)),
              ![c].pc = "errCloexec"]
  /\ UNCHANGED <<flags, osenv, facade, actorState, terminating, queue, nextId,
                 request, procs, results, started, aborted>>

\* Variant of ErrPipeFail: the out logger is killed before the close.
ErrPipeFail_KillFirst(c) ==
  /\ ~aborted
  /\ call[c].pc = "errPipe"
  /\ call' = [call EXCEPT
        ![c].events = Append(@, Ev("pipe", "err", "none", 0, FALSE)),
        ![c].todo = <<KillOp, CloseOp("out", "w")>>,
        ![c].failure = "Failed to create pipe",
        ![c].pc = "rollback"]
  /\ UNCHANGED <<flags, osenv, facade, actorState, terminating, queue, nextId,
                 request, fdt, procs, results, started, aborted>>

\* Lines 159-163: ::pipe fails; close the out write end, kill the out logger.
ErrPipeFail(c) ==
  /\ ~aborted
  /\ call[c].pc = "errPipe"
  /\ call' = [call EXCEPT
        ![c].events = Append(@, Ev("pipe", "err", "none", 0, FALSE)),
        ![c].todo = <<CloseOp("out", "w"), KillOp>>,
        ![c].failure = "Failed to create pipe",
        ![c].pc = "rollback"]
  /\ UNCHANGED <<flags, osenv, facade, actorState, terminating, queue, nextId,
                 request, fdt, procs, results, started, aborted>>

\* Line 171: the err write end is marked close-on-exec.
ErrCloexecOk(c) ==
  /\ ~aborted
  /\ call[c].pc = "errCloexec"
  /\ fdt' = cloexec(fdt, call[c].errfds.write)
  /\ call' = [call EXCEPT
        ![c].events = Append(@, Ev("cloexec", "err", "w", call[c].errfds.write, TRUE)),
        ![c].pc = "errSpawn"]
  /\ UNCHANGED <<flags, osenv, facade, actorState, terminating, queue, nextId,
                 request, procs, results, started, aborted>>

\* Variant of ErrCloexecFail: the failure carries the message of the pipe
\* failure above it.
ErrCloexecFail_PipeMessage(c) ==
  /\ ~aborted
  /\ call[c].pc = "errCloexec"
  /\ call' = [call EXCEPT
        ![c].events = Append(@, Ev("cloexec", "err", "w", call[c].errfds.write, FALSE)),
        ![c].todo = <<CloseOp("out", "w"), CloseOp("err", "r"),
                      CloseOp("err", "w"), KillOp>>,
        ![c].failure = "Failed to create pipe",
        ![c].pc = "rollback"]
  /\ UNCHANGED <<flags, osenv, facade, actorState, terminating, queue, nextId,
                 request, fdt, procs, results, started, aborted>>

\* Lines 172-178: os::cloexec fails.
ErrCloexecFail(c) ==
  /\ ~aborted
  /\ call[c].pc = "errCloexec"
  /\ call' = [call EXCEPT
        ![c].events = Append(@, Ev("cloexec", "err", "w", call[c].errfds.write, FALSE)),
        ![c].todo = <<CloseOp("out", "w"), CloseOp("err", "r"),
                      CloseOp("err", "w"), KillOp>>,
        ![c].failure = "Failed to cloexec",
        ![c].pc = "rollback"]
  /\ UNCHANGED <<flags, osenv, facade, actorState, terminating, queue, nextId,
                 request, fdt, procs, results, started, aborted>>

\* Lines 181-191: the err logger is spawned.
ErrSpawnOk(c) ==
  /\ ~aborted
  /\ call[c].pc = "errSpawn"
  /\ procs' = [procs EXCEPT ![c]["err"] = childOf(fdt, c, call[c].errfds.read)]
  /\ fdt' = close(fdt, call[c].errfds.read)
  /\ call' = [call EXCEPT
        ![c].events = Append(@, Ev("spawn", "err", "r", call[c].errfds.read, TRUE)),
        ![c].pc = "return"]
  /\ UNCHANGED <<flags, osenv, facade, actorState, terminating, queue, nextId,
                 request, results, started, aborted>>

\* Variant of ErrSpawnFail: the out logger is not killed.
ErrSpawnFail_NoKill(c) ==
  /\ ~aborted
  /\ call[c].pc = "errSpawn"
  /\ fdt' = close(fdt, call[c].errfds.read)
  /\ call' = [call EXCEPT
        ![c].events = Append(@, Ev("spawn", "err", "r", call[c].errfds.read, FALSE)),
        ![c].todo = <<CloseOp("out", "w"), CloseOp("err", "w")>>,
        ![c].failure = "Failed to create logger process",
        ![c].pc = "rollback"]
  /\ UNCHANGED <<flags, osenv, facade, actorState, terminating, queue, nextId,
                 request, procs, results, started, aborted>>

\* Lines 193-198: subprocess() fails.
ErrSpawnFail(c) ==
  /\ ~aborted
  /\ call[c].pc = "errSpawn"
  /\ fdt' = close(fdt, call[c].errfds.read)
  /\ call' = [call EXCEPT
        ![c].events = Append(@, Ev("spawn", "err", "r", call[c].errfds.read, FALSE)),
        ![c].todo = <<CloseOp("out", "w"), CloseOp("err", "w"), KillOp>>,
        ![c].failure = "Failed to create logger process",
        ![c].pc = "rollback"]
  /\ UNCHANGED <<flags, osenv, facade, actorState, terminating, queue, nextId,
                 request, procs, results, started, aborted>>

\* The next os::close / os::killtree statement of the failure branch taken.
Cleanup(c) ==
  /\ ~aborted
  /\ call[c].pc = "rollback"
  /\ call[c].todo # <<>>
  /\ LET h == Head(call[c].todo)
         fd == LocalFd(c, h.dir, h.end)
     IN IF h.op = "close"
        THEN /\ fdt' = close(fdt, fd)
             /\ call' = [call EXCEPT
                   ![c].todo = Tail(@),
                   ![c].events = Append(@,
                      Ev("close", h.dir, h.end, fd,
                         /\ fd \in FDs
                         /\ fdt[fd].open
                         /\ fdt[fd].pipe = <<c, h.dir>>
                         /\ fdt[fd].end = h.end
                         /\ fdt[fd].owner = "call"))]
             /\ UNCHANGED procs
        ELSE /\ procs' = [procs EXCEPT ![c]["out"] = killtree(@)]
             /\ call' = [call EXCEPT
                   ![c].todo = Tail(@),
                   ![c].events = Append(@,
                      Ev("kill", "out", "none", 0, procs[c]["out"].state = "alive"))]
             /\ UNCHANGED fdt
  /\ UNCHANGED <<flags, osenv, facade, actorState, terminating, queue, nextId,
                 request, results, started, aborted>>

\* "return Failure(...)" of the failure branch taken.
ReturnFailure(c) ==
  /\ ~aborted
  /\ call[c].pc = "rollback"
  /\ call[c].todo = <<>>
  /\ call' = [call EXCEPT
        ![c].result = [ok |-> FALSE, out |-> 0, err |-> 0, error |-> call[c].failure],
        ![c].events = Append(@, Ev("return", "none", "none", 0, FALSE)),
        ![c].pc = "returned"]
  /\ UNCHANGED <<flags, osenv, facade, actorState, terminating, queue, nextId,
                 request, fdt, procs, results, started, aborted>>

\* Variant of ReturnInfo: the out write end is returned for both streams.
ReturnInfo_SameFd(c) ==
  /\ ~aborted
  /\ call[c].pc = "return"
  /\ call' = [call EXCEPT
        ![c].result = [ok |-> TRUE, out |-> call[c].outfds.write,
                       err |-> call[c].outfds.write, error |-> ""],
        ![c].events = Append(@, Ev("return", "none", "none", 0, TRUE)),
        ![c].pc = "returned"]
  /\ UNCHANGED <<flags, osenv, facade, actorState, terminating, queue, nextId,
                 request, fdt, procs, results, started, aborted>>

\* Lines 201-204: "return info" with the two write ends.
ReturnInfo(c) ==
  /\ ~aborted
  /\ call[c].pc = "return"
  /\ call' = [call EXCEPT
        ![c].result = [ok |-> TRUE, out |-> call[c].outfds.write,
                       err |-> call[c].errfds.write, error |-> ""],
        ![c].events = Append(@, Ev("return", "none", "none", 0, TRUE)),
        ![c].pc = "returned"]
  /\ UNCHANGED <<flags, osenv, facade, actorState, terminating, queue, nextId,
                 request, fdt, procs, results, started, aborted>>

\* ------------------------------------------------------------ environment
\* The caller, owner of a returned write end, closes it.
CallerClose(f) ==
  /\ ~aborted
  /\ fdt[f].open
  /\ fdt[f].owner = "caller"
  /\ fdt' = close(fdt, f)
  /\ UNCHANGED <<flags, osenv, facade, actorState, terminating, queue, nextId,
                 request, call, procs, results, started, aborted>>

\* A logger reads end-of-stream on its stdin, which happens once nobody
\* holds the write end of its pipe, and exits.
SinkExit(c, d) ==
  /\ ~aborted
  /\ procs[c][d].state = "alive"
  /\ WriteHolders(c, d) = {}
  /\ procs' = [procs EXCEPT ![c][d].state = "exited"]
  /\ UNCHANGED <<flags, osenv, facade, actorState, terminating, queue, nextId,
                 request, call, fdt, results, started, aborted>>

\* ------------------------------------------------------------ specification
ActorStep(c) ==
  \/ ActorDequeue(c)
  \/ Compose(c)
  \/ BuildLabels(c)
  \/ OutPipeOk(c)
  \/ OutPipeFail(c)
  \/ OutCloexecOk(c)
  \/ OutCloexecFail(c)
  \/ OutSpawnOk(c)
  \/ OutSpawnFail(c)
  \/ ErrPipeOk(c)
  \/ ErrPipeFail(c)
  \/ ErrCloexecOk(c)
  \/ ErrCloexecFail(c)
  \/ ErrSpawnOk(c)
  \/ ErrSpawnFail(c)
  \/ Cleanup(c)
  \/ ReturnFailure(c)
  \/ ReturnInfo(c)
  \/ ActorFinish(c)

Next ==
  \/ \E req \in SomeRequests : Dispatch(req)
  \/ \E c \in Calls : ActorStep(c)
  \/ ActorTerminate
  \/ Destroy
  \/ DestroyWait
  \/ \E f \in FDs : CallerClose(f)
  \/ \E c \in Calls, d \in Dirs : SinkExit(c, d)

Spec == Init /\ [][Next]_vars

\* The steps of this program: the facade, the actor and the caller. The
\* exit of a logger is a step of another program; it changes only the state
\* of that logger and neither enables nor disables a step of the actor.
ProgramNext ==
  \/ \E req \in SomeRequests : Dispatch(req)
  \/ \E c \in Calls : ActorStep(c)
  \/ ActorTerminate
  \/ Destroy
  \/ DestroyWait
  \/ \E f \in FDs : CallerClose(f)

\* The libprocess worker threads keep running the actor while it has work.
FairSpec ==
  /\ Init
  /\ [][ProgramNext]_vars
  /\ WF_vars(\E c \in Calls : ActorStep(c))
  /\ WF_vars(ActorTerminate)

\* One request, over every supervisor environment, worker-thread count and
\* request.
InputInit == \E cfg \in AllConfigs : Constructed(cfg)

InputNext ==
  \/ \E req \in Requests : nextId = 1 /\ Dispatch(req)
  \/ ActorStep(1)

InputSpec == InputInit /\ [][InputNext]_vars

TypeOK ==
  /\ facade \in {"alive", "destroying", "destroyed"}
  /\ actorState \in {"running", "terminated"}
  /\ nextId \in 1..(MaxCalls + 1)
  /\ \A c \in Calls : call[c].pc \in Active \cup {"none", "queued", "done", "dropped", "aborted"}

\* ------------------------------------------------------------- properties
\* Indices of the events of call c with the given operation and direction.
EvIdx(c, op, d) ==
  {i \in 1..Len(call[c].events) : call[c].events[i].op = op /\ call[c].events[i].dir = d}

\* Descriptors of the setup side that are open on an end of a pipe of call c.
OpenFdsOf(c) == {f \in FDs : fdt[f].open /\ fdt[f].pipe[1] = c}

ReturnedOk(c) == call[c].pc = "returned" /\ call[c].result.ok

ReturnedFailure(c) == call[c].pc = "returned" /\ ~call[c].result.ok

\* The out logger of call c was spawned and a later err step failed.
ErrFailedAfterOutSpawn(c) ==
  /\ \E i \in EvIdx(c, "spawn", "out") : call[c].events[i].ok
  /\ \E i \in 1..Len(call[c].events) :
        call[c].events[i].dir = "err" /\ ~call[c].events[i].ok

\* C1: when prepare returns success, the result holds two distinct write-end
\* descriptors, both open and still owned by the setup side, the out one on
\* the out pipe and the err one on the err pipe of this call; both loggers
\* of this call are alive, each with the read end of its own pipe as stdin;
\* and the call has closed or killed nothing of what it returns.
C1_SuccessResult ==
  \A c \in Calls : ReturnedOk(c) =>
    LET r == call[c].result
    IN /\ r.out \in FDs /\ r.err \in FDs /\ r.out # r.err
       /\ fdt[r.out].open /\ fdt[r.out].owner = "call"
       /\ fdt[r.out].pipe = <<c, "out">> /\ fdt[r.out].end = "w"
       /\ fdt[r.err].open /\ fdt[r.err].owner = "call"
       /\ fdt[r.err].pipe = <<c, "err">> /\ fdt[r.err].end = "w"
       /\ {f \in OpenFdsOf(c) : fdt[f].end = "w"} = {r.out, r.err}
       /\ \A d \in Dirs : /\ procs[c][d].state = "alive"
                          /\ procs[c][d].stdin = <<<<c, d>>, "r">>
       /\ \A i \in 1..Len(call[c].events) :
             call[c].events[i].op \notin {"close", "kill"}

\* Witness of C1: a second call returns success while the first call's
\* write ends are still held by the caller.
C1_Witness ==
  /\ MaxCalls >= 2
  /\ ReturnedOk(2)
  /\ Len(results[1]) = 1 /\ results[1][1].ok
  /\ fdt[results[1][1].out].owner = "caller"

\* C2: when prepare returns a failure, no descriptor of a pipe of this call
\* is open on the setup side and no logger of this call is alive.
C2_FailureLeavesNothing ==
  \A c \in Calls : ReturnedFailure(c) =>
    /\ OpenFdsOf(c) = {}
    /\ \A d \in Dirs : procs[c][d].state # "alive"

\* Witness of C2: a failure returned after the err spawn failed, the out
\* logger having been alive until it was killed.
C2_Witness ==
  \E c \in Calls :
    /\ ReturnedFailure(c)
    /\ \E i \in EvIdx(c, "spawn", "err") : ~call[c].events[i].ok
    /\ procs[c]["out"].state = "killed"

\* C3 as stated: on an err failure after the out spawn, the out logger is
\* killed first, then the out write end is closed, then the failure is
\* returned; the out write end is never closed while the out logger lives.
C3_KillBeforeClose ==
  \A c \in Calls : (ReturnedFailure(c) /\ ErrFailedAfterOutSpawn(c)) =>
    \E k \in EvIdx(c, "kill", "out") :
      \E w \in {i \in EvIdx(c, "close", "out") : call[c].events[i].end = "w"} :
        k < w /\ w < Len(call[c].events)

\* C3 as amended: on an err failure after the out spawn, the out write end
\* is closed first, the process tree of the out logger is killed after it
\* (and after the closes of the err descriptors, if any), and the failure
\* is returned last; each of the three happens exactly once.
C3_CloseThenKillThenReturn ==
  \A c \in Calls : (ReturnedFailure(c) /\ ErrFailedAfterOutSpawn(c)) =>
    LET n == Len(call[c].events)
        kills == EvIdx(c, "kill", "out")
        closes == {i \in EvIdx(c, "close", "out") : call[c].events[i].end = "w"}
    IN /\ Cardinality(kills) = 1 /\ Cardinality(closes) = 1
       /\ call[c].events[n].op = "return"
       /\ \A k \in kills : k = n - 1
       /\ \A w \in closes : \A k \in kills : w < k
       /\ \A w \in closes : call[c].events[w].ok
       /\ \A i \in 1..n : call[c].events[i].op = "close" => \A k \in kills : i < k

\* Witness of C3: a failure returned after the err close-on-exec failed.
C3_Witness ==
  \E c \in Calls :
    /\ ReturnedFailure(c)
    /\ ErrFailedAfterOutSpawn(c)
    /\ \E i \in EvIdx(c, "cloexec", "err") : ~call[c].events[i].ok

\* C4: whenever a logger is about to be spawned, every write end of a pipe
\* of this call that is open on the setup side is close-on-exec; and no
\* logger holds a write end of a pipe of its call (the out logger not the
\* out write end, the err logger neither write end).
C4_WriteEndsCloexec ==
  \A c \in Calls :
    /\ call[c].pc \in {"outSpawn", "errSpawn"} =>
         \A f \in OpenFdsOf(c) : fdt[f].end = "w" => fdt[f].cloexec
    /\ \A d \in Dirs : procs[c][d].state # "none" =>
         /\ procs[c][d].stdin[2] = "r"
         /\ \A e \in Dirs : <<<<c, e>>, "w">> \notin procs[c][d].inherited

\* Witness of C4: the err logger was spawned while both write ends were open.
C4_Witness ==
  \E c \in Calls :
    /\ procs[c]["err"].state = "alive"
    /\ Cardinality({f \in OpenFdsOf(c) : fdt[f].end = "w"}) = 2

\* Holders of the read end of pipe <<c, d>>: descriptors of the setup side,
\* and running loggers that have it as stdin or inherited it.
ReadHolders(c, d) ==
  {<<0, f>> : f \in {g \in FDs : fdt[g].open /\ fdt[g].pipe = <<c, d>> /\ fdt[g].end = "r"}}
    \cup {<<k, e>> \in Calls \X Dirs :
            /\ procs[k][e].state = "alive"
            /\ \/ procs[k][e].stdin = <<<<c, d>>, "r">>
               \/ <<<<c, d>>, "r">> \in procs[k][e].inherited}

\* C5: once the logger of a direction has been spawned, the setup side does
\* not hold that pipe's read end and the logger is its only holder: when the
\* err logger is about to be spawned the out read end is not open on the
\* setup side, the err logger does not inherit it, and after a successful
\* prepare each read end has exactly one holder.
C5_ReadEndOwnedBySink ==
  \A c \in Calls :
    /\ \A d \in Dirs : procs[c][d].state = "alive" => ReadHolders(c, d) = {<<c, d>>}
    /\ call[c].pc = "errSpawn" =>
         ~\E f \in FDs : fdt[f].open /\ fdt[f].pipe = <<c, "out">> /\ fdt[f].end = "r"
    /\ procs[c]["err"].state # "none" =>
         <<<<c, "out">>, "r">> \notin procs[c]["err"].inherited
    /\ ReturnedOk(c) => \A d \in Dirs : Cardinality(ReadHolders(c, d)) = 1

\* Witness of C5: prepare has returned success with both loggers running.
C5_Witness ==
  \E c \in Calls :
    /\ ReturnedOk(c)
    /\ \A d \in Dirs : ReadHolders(c, d) = {<<c, d>>}

\* C6: the actor executes the dispatched requests one at a time and in the
\* order they were dispatched: at most one request is between its
\* environment composition and its return, and the requests started so far
\* are the first ones dispatched, in that order.
C6_OneAtATimeInOrder ==
  /\ Cardinality({c \in Calls : call[c].pc \in Active}) <= 1
  /\ started = [i \in 1..Len(started) |-> i]
  /\ \A c \in Calls : call[c].pc \in Active =>
        /\ c = started[Len(started)]
        /\ \A k \in Calls : k < c => call[k].pc \in {"done", "aborted"}
        /\ \A k \in Calls : k > c => call[k].pc \in {"none", "queued"}

\* Witness of C6: a request is dispatched while another one has descriptors
\* allocated and a logger running.
C6_Witness ==
  \E c \in Calls, k \in Calls :
    /\ call[c].pc = "errCloexec"
    /\ call[k].pc = "queued"

\* C7 as stated, at the end of the facade's life: once the facade has been
\* destroyed, every request that was dispatched has produced exactly one
\* result.
C7_EveryRequestOneResult ==
  facade = "destroyed" => \A c \in Calls : c < nextId => Len(results[c]) = 1

\* The execution of request c passes both CHECKs.
Valid(c) == flags.libprocess_num_worker_threads > 0 /\ request[c].has_framework_id

\* C7 as amended: no request ever produces more than one result; a request
\* whose execution has returned has produced exactly one; a request still
\* queued when the actor handles the termination is dropped and produces
\* none, and so does a request whose execution fails a CHECK (which aborts
\* the process); and every request the actor starts that passes both CHECKs
\* eventually produces its result, every queued request eventually being
\* started or dropped unless the process aborts.
C7_OneResultUnlessDroppedOrAborted ==
  /\ [](\A c \in Calls :
          /\ Len(results[c]) <= 1
          /\ call[c].pc = "done" <=> Len(results[c]) = 1
          /\ call[c].pc = "dropped" => (terminating /\ actorState = "terminated")
          /\ call[c].pc = "aborted" => (aborted /\ ~Valid(c)))
  /\ \A c \in Calls :
        (call[c].pc = "compose" /\ Valid(c)) ~> (Len(results[c]) = 1)
  /\ \A c \in Calls :
        (call[c].pc = "queued") ~> (call[c].pc \in {"done", "dropped"} \/ aborted)

\* Witness of C7: the facade has been destroyed, one request has produced
\* its result and another one was dropped.
C7_Witness ==
  /\ facade = "destroyed"
  /\ \E c \in Calls, k \in Calls :
        /\ Len(results[c]) = 1
        /\ call[k].pc = "dropped" /\ results[k] = <<>>

\* C8: the environment handed to a logger contains neither LIBPROCESS_PORT
\* nor LIBPROCESS_ADVERTISE_PORT, and the two loggers of one call are handed
\* the same environment.
C8_NoPortsInSinkEnvironment ==
  \A c \in Calls :
    /\ \A d \in Dirs : procs[c][d].state # "none" =>
          /\ "LIBPROCESS_PORT" \notin DOMAIN procs[c][d].environment
          /\ "LIBPROCESS_ADVERTISE_PORT" \notin DOMAIN procs[c][d].environment
    /\ (\A d \in Dirs : procs[c][d].state # "none") =>
          procs[c]["out"].environment = procs[c]["err"].environment

\* Witness of C8: both loggers run and the supervisor had both variables.
C8_Witness ==
  \E c \in Calls :
    /\ \A d \in Dirs : procs[c][d].state = "alive"
    /\ {"LIBPROCESS_PORT", "LIBPROCESS_ADVERTISE_PORT"} \subseteq DOMAIN osenv

\* The environment of call c has been composed (lines 68-84 are behind).
Composed(c) == call[c].pc \in (Active \ {"compose"}) \cup {"aborted"}

\* C9: in the composed environment LD_LIBRARY_PATH is the directory of
\* MESOS_NATIVE_LIBRARY when the supervisor has no LD_LIBRARY_PATH but has
\* MESOS_NATIVE_LIBRARY; it has the supervisor's value when the supervisor
\* has one; and it is unset when the supervisor has neither variable.
C9_LibraryPath ==
  \A c \in Calls : Composed(c) =>
    LET e == call[c].environment
        hasLd == "LD_LIBRARY_PATH" \in DOMAIN osenv
        hasLib == "MESOS_NATIVE_LIBRARY" \in DOMAIN osenv
    IN /\ hasLd => /\ "LD_LIBRARY_PATH" \in DOMAIN e
                   /\ e["LD_LIBRARY_PATH"] = osenv["LD_LIBRARY_PATH"]
       /\ (~hasLd /\ hasLib) =>
             /\ "LD_LIBRARY_PATH" \in DOMAIN e
             /\ e["LD_LIBRARY_PATH"] = dirname(osenv["MESOS_NATIVE_LIBRARY"])
             /\ osenv["MESOS_NATIVE_LIBRARY"] = <<"/", "a", "/", "l">>
                  => e["LD_LIBRARY_PATH"] = <<"/", "a">>
             /\ osenv["MESOS_NATIVE_LIBRARY"] = <<"l">>
                  => e["LD_LIBRARY_PATH"] = <<".">>
       /\ (~hasLd /\ ~hasLib) => "LD_LIBRARY_PATH" \notin DOMAIN e

\* Witness of C9: the search path was synthesized as "/a" from "/a/l".
C9_Witness ==
  \E c \in Calls :
    /\ Composed(c)
    /\ "LD_LIBRARY_PATH" \notin DOMAIN osenv
    /\ "MESOS_NATIVE_LIBRARY" \in DOMAIN osenv
    /\ osenv["MESOS_NATIVE_LIBRARY"] = <<"/", "a", "/", "l">>
    /\ call[c].environment["LD_LIBRARY_PATH"] = <<"/", "a">>

\* The digit a one-character string stands for.
DigitValue(ch) == CHOOSE v \in 0..9 : Digits[v + 1] = ch

RECURSIVE ParseDecimal(_)
\* The number a sequence of decimal digits stands for.
ParseDecimal(s) ==
  IF s = <<>> THEN 0
  ELSE 10 * ParseDecimal(SubSeq(s, 1, Len(s) - 1)) + DigitValue(s[Len(s)])

\* C10: with a worker-thread count of 0 a prepare call aborts: it returns
\* no result, allocates no pipe and spawns no logger; with a count above 0
\* the composed environment has LIBPROCESS_NUM_WORKER_THREADS set to the
\* decimal representation of the count.
C10_ZeroThreadsAborts ==
  \A c \in Calls :
    /\ (flags.libprocess_num_worker_threads = 0
        /\ call[c].pc \notin {"none", "queued", "compose", "dropped"}) =>
          /\ call[c].pc = "aborted" /\ aborted
          /\ results[c] = <<>>
          /\ call[c].events = <<>>
          /\ \A f \in FDs : ~fdt[f].open
          /\ \A k \in Calls, d \in Dirs : procs[k][d].state = "none"
    /\ (flags.libprocess_num_worker_threads > 0 /\ Composed(c)) =>
          /\ "LIBPROCESS_NUM_WORKER_THREADS" \in DOMAIN call[c].environment
          /\ call[c].environment["LIBPROCESS_NUM_WORKER_THREADS"] # <<>>
          /\ ParseDecimal(call[c].environment["LIBPROCESS_NUM_WORKER_THREADS"])
               = flags.libprocess_num_worker_threads

\* Witness of C10: a call made with a count of 0 has aborted the process.
C10_Witness ==
  \E c \in Calls :
    /\ flags.libprocess_num_worker_threads = 0
    /\ call[c].pc = "aborted"
    /\ aborted

\* The labels the caller supplied with request c.
CallerLabels(c) == IF request[c].has_labels THEN request[c].labels ELSE <<>>

\* C11: the labels passed to a logger are the n caller labels, unchanged and
\* in their order, followed by FRAMEWORK_ID, EXECUTOR_ID and CONTAINER_ID
\* (the last segment of the sandbox path), n + 3 entries in all, also when a
\* caller label uses one of the three keys; both loggers of a call are
\* passed the same labels.
C11_LabelSequence ==
  \A c \in Calls : \A d \in Dirs : procs[c][d].state # "none" =>
    LET L == procs[c][d].labels
        n == Len(CallerLabels(c))
    IN /\ Len(L) = n + 3
       /\ \A i \in 1..n : L[i] = CallerLabels(c)[i]
       /\ L[n + 1] = [key |-> "FRAMEWORK_ID", value |-> <<request[c].framework_id>>]
       /\ L[n + 2] = [key |-> "EXECUTOR_ID", value |-> <<request[c].executor_id>>]
       /\ L[n + 3].key = "CONTAINER_ID"
       /\ request[c].sandboxDirectory = <<"/", "s", "/", "c">> => L[n + 3].value = <<"c">>
       /\ request[c].sandboxDirectory = <<"/", "s", "/", "d", "/">> => L[n + 3].value = <<"d">>
       /\ \A e \in Dirs : procs[c][e].state # "none" => procs[c][e].labels = L

\* Witness of C11: both loggers run with a caller label that uses the key
\* FRAMEWORK_ID next to the identity label of that key.
C11_Witness ==
  \E c \in Calls :
    /\ \A d \in Dirs : procs[c][d].state = "alive"
    /\ Len(procs[c]["err"].labels) = 5
    /\ procs[c]["err"].labels[1].key = "FRAMEWORK_ID"
    /\ procs[c]["err"].labels[3].key = "FRAMEWORK_ID"

\* The labels of call c have been built (lines 90-112 are behind).
LabelsBuilt(c) == call[c].pc \in Active \ {"compose", "labels"}

\* C12 as stated: label building never aborts the call, so a call aborts
\* only on a worker-thread count of 0.
C12_LabelBuildingNeverAborts ==
  \A c \in Calls : call[c].pc = "aborted" => flags.libprocess_num_worker_threads = 0

\* C12 as amended: label building has no failure result, but it is not
\* total: for a workload identity whose framework id is not set it aborts
\* the process (CHECK), before any pipe is allocated or logger spawned and
\* without a result; for every identity with a framework id it produces the
\* n + 3 labels and the call goes on to the out pipe.
C12_AbortsWithoutFrameworkId ==
  \A c \in Calls :
    /\ LabelsBuilt(c) =>
          /\ request[c].has_framework_id
          /\ Len(call[c].labels) = Len(CallerLabels(c)) + 3
    /\ (flags.libprocess_num_worker_threads > 0 /\ ~request[c].has_framework_id) =>
          call[c].pc \in {"none", "queued", "compose", "labels", "aborted", "dropped"}
    /\ (flags.libprocess_num_worker_threads > 0 /\ call[c].pc = "aborted") =>
          /\ ~request[c].has_framework_id
          /\ aborted
          /\ results[c] = <<>>
          /\ call[c].events = <<>>
          /\ OpenFdsOf(c) = {}
          /\ \A d \in Dirs : procs[c][d].state = "none"
    /\ (call[c].pc = "outPipe" /\ call[c].events = <<>>) => call[c].failure = ""

\* Witness of C12: a call for an identity without framework id has aborted
\* the process, the worker-thread count being positive.
C12_Witness ==
  \E c \in Calls :
    /\ flags.libprocess_num_worker_threads > 0
    /\ ~request[c].has_framework_id
    /\ call[c].pc = "aborted"
    /\ aborted

\* The fallible steps of a pipeline.
SetupOps == {"pipe", "cloexec", "spawn"}

\* Indices of the setup steps of call c that failed.
FailedSteps(c) ==
  {i \in 1..Len(call[c].events) :
     call[c].events[i].op \in SetupOps /\ ~call[c].events[i].ok}

\* The message the claim gives for a failure of the step.
MessageOf(op) ==
  CASE op = "pipe" -> "Failed to create pipe"
    [] op = "cloexec" -> "Failed to cloexec"
    [] op = "spawn" -> "Failed to create logger process"

\* C13: a failure returned by prepare carries the message of the first step
\* that failed, in either direction (pipe, close-on-exec or spawn); exactly
\* one step has failed, only closes, the kill and the return follow it, and
\* at most one result is reported; a success has no failed step.
C13_FailureClassifiedByFirstFailure ==
  \A c \in Calls :
    /\ ReturnedFailure(c) =>
          /\ Cardinality(FailedSteps(c)) = 1
          /\ \A i \in FailedSteps(c) :
                /\ call[c].result.error = MessageOf(call[c].events[i].op)
                /\ \A j \in 1..Len(call[c].events) :
                      j > i => call[c].events[j].op \in {"close", "kill", "return"}
          /\ Cardinality(EvIdx(c, "return", "none")) = 1
    /\ ReturnedOk(c) => (FailedSteps(c) = {} /\ call[c].result.error = "")
    /\ call[c].pc = "rollback" => Cardinality(FailedSteps(c)) = 1
    /\ Len(results[c]) <= 1
    /\ \A i \in 1..Len(results[c]) : ~results[c][i].ok =>
          results[c][i].error \in {MessageOf(op) : op \in SetupOps}

\* Witness of C13: the err close-on-exec failed after the out logger was
\* spawned and the failure returned is "Failed to cloexec".
C13_Witness ==
  \E c \in Calls :
    /\ ReturnedFailure(c)
    /\ call[c].result.error = "Failed to cloexec"
    /\ \E i \in FailedSteps(c) : call[c].events[i].dir = "err"

\* The out logger of call c has been spawned successfully.
OutSpawned(c) == \E i \in EvIdx(c, "spawn", "out") : call[c].events[i].ok

\* C14: within a call no step of the err pipeline happens before the out
\* logger has been spawned successfully; and when an out step has failed the
\* call is on its way to returning a failure with no err pipe allocated, no
\* err logger spawned and no kill issued or pending.
C14_OutBeforeErr ==
  \A c \in Calls :
    /\ \A i \in 1..Len(call[c].events) : call[c].events[i].dir = "err" =>
          \E j \in EvIdx(c, "spawn", "out") : j < i /\ call[c].events[j].ok
    /\ call[c].pc \in {"errPipe", "errCloexec", "errSpawn"} =>
          (OutSpawned(c) /\ procs[c]["out"].state # "none")
    /\ procs[c]["err"].state # "none" => procs[c]["out"].state # "none"
    /\ (\E i \in FailedSteps(c) : call[c].events[i].dir = "out") =>
          /\ call[c].pc \in {"rollback", "returned"}
          /\ call[c].pc = "returned" => ~call[c].result.ok
          /\ \A i \in 1..Len(call[c].events) :
                call[c].events[i].dir # "err" /\ call[c].events[i].op # "kill"
          /\ \A i \in 1..Len(call[c].todo) : call[c].todo[i].op # "kill"
          /\ call[c].errfds = NoFds
          /\ \A f \in FDs : fdt[f].pipe # <<c, "err">>
          /\ \A d \in Dirs : procs[c][d].state = "none"

\* Witness of C14: the out spawn failed and the failure has been returned.
C14_Witness ==
  \E c \in Calls :
    /\ ReturnedFailure(c)
    /\ \E i \in EvIdx(c, "spawn", "out") : ~call[c].events[i].ok

\* Call c has failed: it is rolling back, has returned a failure, or its
\* future was completed with one.
Failed(c) ==
  \/ call[c].pc = "rollback"
  \/ ReturnedFailure(c)
  \/ call[c].pc = "done" /\ Len(results[c]) = 1 /\ ~results[c][1].ok

\* C15, state part: a call that has returned has issued one kill if its out
\* logger was spawned and a later err step failed, and none otherwise; no
\* call issues more than one; and a logger that was killed is the out logger
\* of a call that failed.
C15_KillState ==
  \A c \in Calls :
    /\ Cardinality(EvIdx(c, "kill", "out")) <= 1
    /\ EvIdx(c, "kill", "out") # {} => ErrFailedAfterOutSpawn(c)
    /\ call[c].pc = "returned" =>
          (EvIdx(c, "kill", "out") # {} <=> ErrFailedAfterOutSpawn(c))
    /\ \A d \in Dirs : procs[c][d].state = "killed" => (d = "out" /\ Failed(c))

\* C15, step part: a logger is killed only by the kill statement of the
\* rollback of its own call, and only the out logger is.
C15_KillStep ==
  \A c \in Calls : \A d \in Dirs :
    (procs[c][d].state # "killed" /\ procs'[c][d].state = "killed") =>
      /\ d = "out"
      /\ call[c].pc = "rollback"
      /\ call[c].todo # <<>>
      /\ Head(call[c].todo).op = "kill"
      /\ \A k \in Calls \ {c} : call[k].pc \notin Active

\* C15: prepare issues a kill if and only if the out logger of the call was
\* spawned and a later err step failed, exactly once, on the out logger of
\* that call; no logger of a successful call or of another call is killed.
C15_KillOnlyOnErrRollback == [](C15_KillState) /\ [][C15_KillStep]_vars

\* Witness of C15: the second call has killed its out logger while the
\* loggers of the first, successful call are alive.
C15_Witness ==
  /\ Len(results[1]) = 1 /\ results[1][1].ok
  /\ \A d \in Dirs : procs[1][d].state = "alive"
  /\ ReturnedFailure(2)
  /\ procs[2]["out"].state = "killed"

\* C16, state part: the actor is never terminated while a call is inside
\* prepare; a descriptor still owned by a call and a logger of a call that
\* has not succeeded belong to a call that is executing; and a call that is
\* over has its result.
C16_NoCallCutShort ==
  /\ actorState = "terminated" => \A c \in Calls : call[c].pc \notin Active
  /\ \A f \in FDs : (fdt[f].open /\ fdt[f].owner = "call") =>
        call[fdt[f].pipe[1]].pc \in Active
  /\ \A c \in Calls :
        /\ (\E d \in Dirs : procs[c][d].state = "alive") =>
              \/ call[c].pc \in Active
              \/ call[c].pc = "done" /\ Len(results[c]) = 1 /\ results[c][1].ok
        /\ call[c].pc = "done" => Len(results[c]) = 1
        /\ call[c].pc = "dropped" =>
              (OpenFdsOf(c) = {} /\ \A d \in Dirs : procs[c][d].state = "none")

\* C16: a call that has allocated its first pipe always reaches its return
\* (of the two write ends or, after the rollback, of a failure) and its
\* result is delivered, also when the facade is destroyed meanwhile: the
\* termination takes effect only between two calls.
C16_RunsToCompletion ==
  /\ [](C16_NoCallCutShort)
  /\ \A c \in Calls : (call[c].pc = "outCloexec") ~> (call[c].pc = "returned")
  /\ \A c \in Calls : (call[c].pc = "returned") ~> (Len(results[c]) = 1)
  /\ \A c \in Calls :
        (terminating /\ call[c].pc \in Active \ {"compose", "labels"})
          ~> (actorState = "terminated" /\ Len(results[c]) = 1)

\* Witness of C16: the destructor has called terminate and is waiting while
\* a call holds the out write end and the out logger runs.
C16_Witness ==
  /\ facade = "destroying"
  /\ actorState = "running"
  /\ \E c \in Calls :
        /\ call[c].pc = "errCloexec"
        /\ procs[c]["out"].state = "alive"

\* The variables environment composition may erase, add or change.
ComposedVariables ==
  {"LIBPROCESS_PORT", "LIBPROCESS_ADVERTISE_PORT", "LD_LIBRARY_PATH",
   "LIBPROCESS_NUM_WORKER_THREADS"}

\* Environment e agrees with the supervisor's on every other variable.
SameElsewhere(e) ==
  /\ (DOMAIN e) \ ComposedVariables = (DOMAIN osenv) \ ComposedVariables
  /\ \A k \in (DOMAIN osenv) \ ComposedVariables : e[k] = osenv[k]

\* C17, state part: the composed environment, and the environment handed to
\* a logger, has every other variable of the supervisor with its value and
\* no other variable in addition; with a positive count its
\* LIBPROCESS_NUM_WORKER_THREADS is the configured count, whatever the
\* supervisor's value was.
C17_OnlyFourVariables ==
  \A c \in Calls :
    /\ Composed(c) =>
          /\ SameElsewhere(call[c].environment)
          /\ flags.libprocess_num_worker_threads > 0 =>
                /\ "LIBPROCESS_NUM_WORKER_THREADS" \in DOMAIN call[c].environment
                /\ ParseDecimal(call[c].environment["LIBPROCESS_NUM_WORKER_THREADS"])
                     = flags.libprocess_num_worker_threads
    /\ \A d \in Dirs : procs[c][d].state # "none" =>
          /\ SameElsewhere(procs[c][d].environment)
          /\ ParseDecimal(procs[c][d].environment["LIBPROCESS_NUM_WORKER_THREADS"])
               = flags.libprocess_num_worker_threads

\* C17, step part: no step changes the supervisor's environment or the
\* facade's configuration.
C17_InputsUnchanged == osenv' = osenv /\ flags' = flags

\* C17: environment composition changes only LIBPROCESS_PORT,
\* LIBPROCESS_ADVERTISE_PORT, LD_LIBRARY_PATH and
\* LIBPROCESS_NUM_WORKER_THREADS, overwrites an inherited worker-thread
\* count with the configured one, and leaves the supervisor's environment
\* and the configuration unchanged.
C17_CompositionFrame == [](C17_OnlyFourVariables) /\ [][C17_InputsUnchanged]_vars

\* Witness of C17: the supervisor's worker-thread count "4" was overwritten
\* by the configured 12 and MESOS_NATIVE_LIBRARY was handed on to a logger.
C17_Witness ==
  \E c \in Calls :
    /\ procs[c]["out"].state = "alive"
    /\ flags.libprocess_num_worker_threads = 12
    /\ "LIBPROCESS_NUM_WORKER_THREADS" \in DOMAIN osenv
    /\ osenv["LIBPROCESS_NUM_WORKER_THREADS"] = <<"4">>
    /\ procs[c]["out"].environment["LIBPROCESS_NUM_WORKER_THREADS"] = <<"1", "2">>
    /\ "MESOS_NATIVE_LIBRARY" \in DOMAIN osenv
    /\ procs[c]["out"].environment["MESOS_NATIVE_LIBRARY"] = osenv["MESOS_NATIVE_LIBRARY"]

\* Indices of the closes call c has performed.
Closes(c) == {i \in 1..Len(call[c].events) : call[c].events[i].op = "close"}

\* C18, state part: every close of a call hit a descriptor that was open,
\* on the pipe end of this call the statement names, and owned by the call;
\* no end is closed twice; and a read end is not closed after it was handed
\* to a spawn attempt.
C18_ClosesOwnDescriptors ==
  \A c \in Calls :
    /\ \A i \in Closes(c) : call[c].events[i].ok /\ call[c].events[i].fd \in FDs
    /\ \A i \in Closes(c), j \in Closes(c) :
          i # j => /\ call[c].events[i].fd # call[c].events[j].fd
                   /\ <<call[c].events[i].dir, call[c].events[i].end>>
                        # <<call[c].events[j].dir, call[c].events[j].end>>
    /\ \A d \in Dirs : \A s \in EvIdx(c, "spawn", d) : \A i \in Closes(c) :
          i > s => ~(call[c].events[i].dir = d /\ call[c].events[i].end = "r")

\* C18, step part: a descriptor owned by the caller is not touched by a step
\* of prepare, and a descriptor owned by a call is closed only while that
\* call is executing.
C18_CloseStep ==
  \A f \in FDs :
    /\ (fdt[f].open /\ fdt[f].owner = "caller" /\ fdt'[f] # fdt[f]) => call' = call
    /\ (fdt[f].open /\ fdt[f].owner = "call" /\ ~fdt'[f].open) =>
          call[fdt[f].pipe[1]].pc \in {"outSpawn", "errSpawn", "rollback"}

\* C18: every close performed by prepare targets a descriptor the same call
\* allocated and the setup side still owns; nothing is closed twice, a read
\* end handed to a spawn attempt is not closed again, and a write end
\* returned to the caller of an earlier call is not closed by a later call.
C18_NoForeignOrDoubleClose == [](C18_ClosesOwnDescriptors) /\ [][C18_CloseStep]_vars

\* Witness of C18: the rollback of the second call has closed a descriptor
\* whose number the first call had returned and the caller had closed, while
\* the caller still holds the other write end of the first call.
C18_Witness ==
  /\ Len(results[1]) = 1 /\ results[1][1].ok
  /\ fdt[results[1][1].err].open /\ fdt[results[1][1].err].owner = "caller"
  /\ ReturnedFailure(2)
  /\ \E i \in Closes(2) : call[2].events[i].fd = results[1][1].out

====
